---- MODULE Spec2Model ----
(***************************************************************************)
(* Model of src/common/grid.rs: Grid<T>, a flat row-major store with a     *)
(* column count and a row count, its two mutators (with_column_size,       *)
(* add_row) and its queries.  Indices are 0-based as in the source; a      *)
(* Vec<T> is a TLA+ sequence, so element i of the Vec is seq[i + 1].       *)
(***************************************************************************)
EXTENDS Integers, Sequences, FiniteSets, TLC

\* Bounds of the model.
MaxLen == 3
MaxRows == 3

\* The rows a caller passes to add_row: for every length 0..MaxLen, two rows
\* whose cells all differ, so that a cell's value tells its column and which
\* of the two rows it came from.
RowArgs ==
    UNION {{[k \in 1..n |-> k - 1], [k \in 1..n |-> 10 + (k - 1)]} : n \in 0..MaxLen}

\* The usize arguments the queries are called with: every extent of a grid
\* of the model and one past it.
ColArgs == 0..MaxLen
RowIdxArgs == 0..MaxRows
IndexArgs == 0..(MaxLen * MaxRows + 1)
PointArgs == [x : ColArgs, y : RowIdxArgs]

VARIABLES elements, columns, rows, accepted, hinted, ret

vars == <<elements, columns, rows, accepted, hinted, ret>>

\* The grid value `self`.
Self == [elements |-> elements, columns |-> columns, rows |-> rows]

\* Results of a call: Option::None, Option::Some(v) (also used for a plain
\* returned value), () and a panic that aborts the program.
None == [tag |-> "None"]
Some(v) == [tag |-> "Some", v |-> v]
Unit == [tag |-> "Unit"]
Panic == [tag |-> "Panic"]

Point(x, y) == [x |-> x, y |-> y]

\* Grid::new()
new == [elements |-> <<>>, columns |-> 0, rows |-> 0]

\* Grid::with_column_size(self, columns)
with_column_size(g, n) ==
    IF g.columns = 0
    THEN [g EXCEPT !.columns = n]
    ELSE g

\* add_row without the length check (every row is appended).
add_row_unchecked(g, row) ==
    [elements |-> g.elements \o row,
     columns |-> IF g.columns = 0 THEN Len(row) ELSE g.columns,
     rows |-> g.rows + 1]

\* Grid::add_row(&mut self, row)
add_row(g, row) ==
    LET row_len == Len(row) IN
    IF g.columns = 0
    THEN [elements |-> g.elements \o row, columns |-> row_len, rows |-> g.rows + 1]
    ELSE IF row_len # g.columns
         THEN g
         ELSE [elements |-> g.elements \o row, columns |-> g.columns, rows |-> g.rows + 1]

\* Grid::get_row(&self, row); elements[start..end] panics when end > len.
get_row(g, row) ==
    IF row >= g.rows
    THEN None
    ELSE LET start == g.columns * row
             end == start + g.columns
         IN IF end > Len(g.elements)
            THEN Panic
            ELSE Some(SubSeq(g.elements, start + 1, end))

\* Grid::get_column(&self, column); elements[column..] panics when
\* column > len, step_by(columns) takes offsets column, column+columns, ...
get_column(g, column) ==
    IF column >= g.columns
    THEN None
    ELSE IF column > Len(g.elements)
         THEN Panic
         ELSE LET n == (Len(g.elements) - column + g.columns - 1) \div g.columns
              IN Some([k \in 1..n |-> g.elements[column + (k - 1) * g.columns + 1]])

\* The for_each over chunks(columns) of get_inner_grid: each chunk `row`
\* (the last one may be shorter) is cut to row[1..row.len() - 1], which
\* panics when row.len() = 1, and handed to add_row of the new grid.
RECURSIVE inner_rows(_, _, _)
inner_rows(s, chunk, new_grid) ==
    IF s = <<>>
    THEN Some(new_grid)
    ELSE LET n == IF Len(s) < chunk THEN Len(s) ELSE chunk
             row == SubSeq(s, 1, n)
             end_column == Len(row) - 1
         IN IF 1 > end_column
            THEN Panic
            ELSE inner_rows(SubSeq(s, n + 1, Len(s)), chunk,
                            add_row(new_grid, SubSeq(row, 2, end_column)))

\* Grid::get_inner_grid(&self).  len - columns underflows when len < columns:
\* a panic with overflow checks, a huge `end` and so a slice panic without.
\* chunks(0) panics.
get_inner_grid(g) ==
    LET start == g.columns IN
    IF Len(g.elements) < g.columns
    THEN Panic
    ELSE LET end == Len(g.elements) - g.columns IN
         IF start > end
         THEN Panic
         ELSE IF g.columns = 0
              THEN Panic
              ELSE inner_rows(SubSeq(g.elements, start + 1, end), g.columns, new)

\* 2^k
RECURSIVE Pow2(_)
Pow2(k) == IF k = 0 THEN 1 ELSE 2 * Pow2(k - 1)

\* f32::MANTISSA_DIGITS = 24: a significand m has 2^23 <= m < 2^24.
F32MinSignificand == 8388608
F32SignificandLimit == 16777216

\* An f32 has a 24-bit significand: scale the positive rational N/D by powers
\* of two until 2^23 <= N/D < 2^24; e is the exponent of the last place.
RECURSIVE f32_norm(_, _, _)
f32_norm(N, D, e) ==
    IF N < D * F32MinSignificand
    THEN f32_norm(2 * N, D, e - 1)
    ELSE IF N >= D * F32SignificandLimit
         THEN f32_norm(N, 2 * D, e + 1)
         ELSE <<N, D, e>>

\* The f32 nearest to N/D (ties to even), as <<significand, exponent>>.
f32_round(N, D) ==
    IF N = 0
    THEN <<0, 0>>
    ELSE LET t == f32_norm(N, D, 0)
             m0 == t[1] \div t[2]
             r == t[1] % t[2]
             m == IF 2 * r > t[2] \/ (2 * r = t[2] /\ m0 % 2 = 1) THEN m0 + 1 ELSE m0
         IN <<m, t[3]>>

\* floor() of the f32 <<m, e>>, cast back `as usize`.
f32_floor(f) ==
    IF f[2] >= 0 THEN f[1] * Pow2(f[2]) ELSE f[1] \div Pow2(0 - f[2])

\* `n as f32`: an integer-valued f32, so its floor is its value.
usize_as_f32(n) == f32_floor(f32_round(n, 1))

\* (index as f32 / columns as f32).floor() as usize, for columns > 0.
f32_div_floor(index, cols) ==
    f32_floor(f32_round(usize_as_f32(index), usize_as_f32(cols)))

\* Grid::index_to_point(&self, index); index % 0 panics.
index_to_point(g, index) ==
    IF index > Len(g.elements)
    THEN None
    ELSE IF index >= g.columns /\ g.columns = 0
         THEN Panic
         ELSE LET x == IF index >= g.columns THEN index % g.columns ELSE index
                  y == f32_div_floor(index, g.columns)
              IN Some(Point(x, y))

\* Grid::get_element(&self, point); Vec::get is None past the end.
get_element(g, point) ==
    IF point.x >= g.columns \/ point.y >= g.rows
    THEN None
    ELSE LET index == (g.columns * point.y) + point.x
         IN IF index < Len(g.elements)
            THEN Some(g.elements[index + 1])
            ELSE None

\* The (i, j) pairs of the two nested loops `for i in -1..=1`, `for j in
\* -1..=1`, in iteration order.
Offsets ==
    << <<-1, -1>>, <<-1, 0>>, <<-1, 1>>,
       <<0, -1>>, <<0, 0>>, <<0, 1>>,
       <<1, -1>>, <<1, 0>>, <<1, 1>> >>

\* The skip test with its second half lost: (-1, 1) and (1, -1) pass.
skip_main_diagonal(i, j) == i = j

\* The skip test `i == j || i + j == 0` of get_adjacent_points.
skip_diagonals(i, j) == i = j \/ i + j = 0

\* The loop body of get_adjacent_points folded over the offsets from k on.
RECURSIVE adjacent_from(_, _, _)
adjacent_from(g, point, k) ==
    IF k > Len(Offsets)
    THEN <<>>
    ELSE LET i == Offsets[k][1]
             j == Offsets[k][2]
             rest == adjacent_from(g, point, k + 1)
         IN IF skip_diagonals(i, j)
            THEN rest
            ELSE IF (point.x + i < 0) \/ (point.y + j < 0)
                 THEN rest
                 ELSE LET p == Point(point.x + i, point.y + j)
                      IN IF p.x < g.columns /\ p.y < g.rows
                         THEN <<p>> \o rest
                         ELSE rest

\* Grid::get_adjacent_points(&self, point)
get_adjacent_points(g, point) ==
    IF point.x >= g.columns \/ point.y >= g.rows
    THEN <<>>
    ELSE adjacent_from(g, point, 1)

\* is_edge_node comparing against columns and rows instead of the last index.
is_edge_node_off_by_one(g, point, checks) ==
    Some((point.x = 0 \/ point.x = g.columns) \/ (point.y = 0 \/ point.y = g.rows))

\* Grid::is_edge_node(&self, point), || short-circuits left to right.
\* columns - 1 and rows - 1 underflow on 0: a panic with overflow checks
\* (debug build); without them the value wraps to usize::MAX, which no
\* coordinate of the model equals.
is_edge_node(g, point, checks) ==
    IF point.x = 0
    THEN Some(TRUE)
    ELSE IF g.columns = 0 /\ checks
         THEN Panic
         ELSE IF g.columns # 0 /\ point.x = g.columns - 1
              THEN Some(TRUE)
              ELSE IF point.y = 0
                   THEN Some(TRUE)
                   ELSE IF g.rows = 0 /\ checks
                        THEN Panic
                        ELSE Some(g.rows # 0 /\ point.y = g.rows - 1)

----
\* Grid::new().  accepted, hinted and ret record the history: the rows
\* add_row appended, whether with_column_size was called, and the last call
\* with its result.
Init ==
    /\ elements = new.elements
    /\ columns = new.columns
    /\ rows = new.rows
    /\ accepted = <<>>
    /\ hinted = FALSE
    /\ ret = [op |-> "new", arg |-> <<>>, res |-> Unit]

\* A panic aborts the program.
Running == ret.res.tag # "Panic"

SetGrid(g) ==
    /\ elements' = g.elements
    /\ columns' = g.columns
    /\ rows' = g.rows

WithColumnSize(n) ==
    /\ Running
    /\ SetGrid(with_column_size(Self, n))
    /\ hinted' = TRUE
    /\ ret' = [op |-> "with_column_size", arg |-> n, res |-> Unit]
    /\ UNCHANGED accepted

AddRow(row) ==
    /\ Running
    /\ rows < MaxRows
    /\ SetGrid(add_row(Self, row))
    /\ accepted' = IF rows' = rows + 1 THEN Append(accepted, row) ELSE accepted
    /\ ret' = [op |-> "add_row", arg |-> row, res |-> Unit]
    /\ UNCHANGED hinted

Query(op, arg, res) ==
    /\ Running
    /\ ret' = [op |-> op, arg |-> arg, res |-> res]
    /\ UNCHANGED <<elements, columns, rows, accepted, hinted>>

GetRow(r) == Query("get_row", r, get_row(Self, r))

GetColumn(c) == Query("get_column", c, get_column(Self, c))

GetInnerGrid == Query("get_inner_grid", <<>>, get_inner_grid(Self))

IndexToPoint(i) == Query("index_to_point", i, index_to_point(Self, i))

GetElement(p) == Query("get_element", p, get_element(Self, p))

GetAdjacentPoints(p) == Query("get_adjacent_points", p, Some(get_adjacent_points(Self, p)))

\* The build profile (overflow checks on or off) decides what an underflow does.
IsEdgeNode(p) ==
    \E checks \in BOOLEAN : Query("is_edge_node", p, is_edge_node(Self, p, checks))

Next ==
    \/ \E n \in 0..MaxLen : WithColumnSize(n)
    \/ \E row \in RowArgs : AddRow(row)
    \/ \E r \in RowIdxArgs : GetRow(r)
    \/ \E c \in ColArgs : GetColumn(c)
    \/ GetInnerGrid
    \/ \E i \in IndexArgs : IndexToPoint(i)
    \/ \E p \in PointArgs : GetElement(p)
    \/ \E p \in PointArgs : GetAdjacentPoints(p)
    \/ \E p \in PointArgs : IsEdgeNode(p)

Spec == Init /\ [][Next]_vars

----
\* The elements of a sequence.
Range(s) == {s[k] : k \in 1..Len(s)}

InBounds(p) == p.x < columns /\ p.y < rows

\* C1: in every state reachable from Grid::new() by with_column_size and
\* add_row calls (rows of any length, 0 included), the number of stored
\* elements equals columns * rows.
C1_ElementsFillGrid == Len(elements) = columns * rows

\* C2: once the grid has accepted its first row, or has been given a
\* column-size hint, columns never changes again.  (A hint of 0 sets no
\* size and is not counted as a hint.)
C2_ColumnsFixed ==
    [][(rows >= 1 \/ (hinted /\ columns >= 1)) => columns' = columns]_vars

\* C3: add_row with a row whose length differs from the grid's non-zero
\* columns is rejected: rows, elements and columns are as before the call.
C3_MismatchedRowRejected ==
    [][(ret'.op = "add_row" /\ columns # 0 /\ Len(ret'.arg) # columns)
         => (elements' = elements /\ rows' = rows /\ columns' = columns)]_vars

\* A row of the wrong length was just passed to a grid that holds rows.
C3_Witness ==
    /\ ret.op = "add_row"
    /\ rows >= 1
    /\ columns # 0
    /\ Len(ret.arg) # columns

\* C4: after any sequence of add_row calls, get_row(r) returns the r-th
\* accepted row as it was passed for every r < rows, and absent for r >= rows.
C4_GetRowReturnsAcceptedRow ==
    (ret.op = "get_row" /\ ~hinted)
        => IF ret.arg < rows
           THEN ret.res = Some(accepted[ret.arg + 1])
           ELSE ret.res = None

\* C5: for a grid built by add_row, get_element(Point{x, y}) returns the x-th
\* element of the y-th accepted row when x < columns and y < rows, and absent
\* exactly when x >= columns or y >= rows.
C5_GetElementReturnsCell ==
    (ret.op = "get_element" /\ ~hinted)
        => IF InBounds(ret.arg)
           THEN /\ ret.arg.x < Len(accepted[ret.arg.y + 1])
                /\ ret.res = Some(accepted[ret.arg.y + 1][ret.arg.x + 1])
           ELSE ret.res = None

\* C6: for a grid built by add_row, get_column(c) with c < columns returns a
\* sequence of length rows whose k-th entry is what get_element yields at
\* row k, column c; with c >= columns it returns absent.
C6_GetColumnReturnsColumn ==
    (ret.op = "get_column" /\ ~hinted)
        => IF ret.arg < columns
           THEN /\ ret.res.tag = "Some"
                /\ Len(ret.res.v) = rows
                /\ \A k \in 0..(rows - 1) :
                       Some(ret.res.v[k + 1]) = get_element(Self, Point(ret.arg, k))
           ELSE ret.res = None

\* C7: for every grid with columns >= 1 and every flat index i < rows *
\* columns, index_to_point(i) returns a present Point{x, y} with
\* y * columns + x = i.
C7_IndexToPointRoundTrip ==
    (ret.op = "index_to_point" /\ columns >= 1 /\ ret.arg < rows * columns)
        => /\ ret.res.tag = "Some"
           /\ ret.res.v.y * columns + ret.res.v.x = ret.arg

\* C8: for every grid with R >= 3 rows and C >= 3 columns, get_inner_grid
\* returns a grid with R-2 rows and C-2 columns whose element at (r, c) is the
\* original's element at (r+1, c+1); the original grid is not modified.
C8_InnerGridIsInterior ==
    [][(ret'.op = "get_inner_grid" /\ rows >= 3 /\ columns >= 3)
         => /\ UNCHANGED <<elements, columns, rows>>
            /\ ret'.res.tag = "Some"
            /\ ret'.res.v.rows = rows - 2
            /\ ret'.res.v.columns = columns - 2
            /\ \A r \in 0..(rows - 3), c \in 0..(columns - 3) :
                   /\ get_element(ret'.res.v, Point(c, r)).tag = "Some"
                   /\ get_element(ret'.res.v, Point(c, r))
                        = get_element(Self, Point(c + 1, r + 1))]_vars

\* The points of the grid one step away from p along one axis.
Neighbours(p) ==
    {q \in [x : 0..(columns - 1), y : 0..(rows - 1)] :
        \/ (q.y = p.y /\ (q.x = p.x + 1 \/ q.x + 1 = p.x))
        \/ (q.x = p.x /\ (q.y = p.y + 1 \/ q.y + 1 = p.y))}

\* C9: get_adjacent_points(p) returns, without duplicates, exactly the
\* in-bounds points that differ from p by 1 in one coordinate and 0 in the
\* other, and the empty collection when p itself is out of bounds.
C9_AdjacentPointsAreNeighbours ==
    ret.op = "get_adjacent_points"
        => /\ ret.res.tag = "Some"
           /\ Cardinality(Range(ret.res.v)) = Len(ret.res.v)
           /\ Range(ret.res.v) = IF InBounds(ret.arg) THEN Neighbours(ret.arg) ELSE {}

\* The neighbours of a point in the first column but not in a corner.
C9_Witness ==
    /\ ret.op = "get_adjacent_points"
    /\ ret.arg.x = 0
    /\ ret.arg.y >= 1
    /\ Len(ret.res.v) = 3

\* C10: on a grid with rows >= 1 and columns >= 1, for an in-bounds point p,
\* is_edge_node(p) is false exactly when p is strictly inside the grid
\* (0 < p.x < columns-1 and 0 < p.y < rows-1), so true on all four corners.
C10_EdgeNodeIffOnBorder ==
    (ret.op = "is_edge_node" /\ rows >= 1 /\ columns >= 1 /\ InBounds(ret.arg))
        => /\ ret.res.tag = "Some"
           /\ ret.res.v = ~(/\ 0 < ret.arg.x
                             /\ ret.arg.x + 1 < columns
                             /\ 0 < ret.arg.y
                             /\ ret.arg.y + 1 < rows)
           /\ (ret.arg.x \in {0, columns - 1} /\ ret.arg.y \in {0, rows - 1})
                => ret.res.v

\* is_edge_node answered false for a point strictly inside the grid.
C10_Witness ==
    /\ ret.op = "is_edge_node"
    /\ InBounds(ret.arg)
    /\ 0 < ret.arg.x
    /\ 0 < ret.arg.y
    /\ ret.res = Some(FALSE)

\* C11: on every grid reachable from Grid::new() by with_column_size and
\* add_row (the empty grid and a grid with a hint but no rows included), the
\* queries get_row, get_column, index_to_point, get_element and
\* get_adjacent_points, called with any argument, complete with a present
\* value or an absent/empty result and never panic.
C11_QueriesNeverPanic ==
    ret.op \in {"get_row", "get_column", "index_to_point", "get_element",
                "get_adjacent_points"}
        => ret.res.tag \in {"Some", "None"}

====
